---- MODULE Spec2Model ----
(***************************************************************************)
(* A model of lemmego/fsys: the FS storage interface and two of its        *)
(* backends, MemoryStorage (memory_storage.go) and GCSStorage              *)
(* (google_cloud_storage.go).                                              *)
(*                                                                         *)
(* Strings are sequences of one-character strings, so that suffix tests,   *)
(* concatenation and filepath.Join are computed and not assumed.  Byte     *)
(* slices are sequences of naturals.                                       *)
(*                                                                         *)
(* A *File of the memory backend is modelled by its value [Name, Content]. *)
(* Rename moves the pointer and Copy wraps the source's byte slice without *)
(* copying it, but no operation of the package ever writes into a stored   *)
(* buffer (Write, Copy and Upload install a new File, Read wraps the bytes *)
(* in a read-only reader), so pointer identity is not observable through   *)
(* the ten operations.                                                     *)
(***************************************************************************)
EXTENDS Integers, Sequences, FiniteSets, TLC

VARIABLES
    driver,   \* which backend was constructed (Driver())
    files,    \* MemoryStorage.files : path -> File
    bucket,   \* the objects of the GCS bucket gcs.BucketName : key -> bytes
    tempFiles,\* the local temporary files made by os.CreateTemp, in creation order
    last,     \* the most recent call, or step of a call in flight: its inputs
              \* and what it returned
    threads,  \* concurrent callers of the memory backend: where each one is
    mu,       \* MemoryStorage.mu, the sync.RWMutex
    crashed,  \* the Go runtime has stopped the process (fatal error)
    written,  \* history: the paths a Write has succeeded on so far
    pending   \* the GCS call that is between its two remote calls, if any

vars == <<driver, files, bucket, tempFiles, last, threads, mu, crashed, written, pending>>

(***************************************************************************)
(* Bounds and input domains                                                *)
(***************************************************************************)
MaxByte == 1

\* how many temporary files the local disk takes before os.CreateTemp is no
\* longer called
MaxTemp == 1

\* the most temporary files where several handles are held at once
MaxSnap == 2

Bytes == 1..MaxByte

\* byte slices handed to Write / carried by an upload stream
Contents == {<<>>} \cup {<<x>> : x \in Bytes}

\* object keys used as path arguments
Paths == { <<"a">>, <<"d", "/">>, <<"d", "/", "a">> }

\* arguments of CreateDirectory
DirArgs == Paths \cup { <<>>, <<"d">> }

\* dir and header.Filename arguments of Upload
UploadDirs == { <<>>, <<"d">>, <<"d", "/">> }

\* path and dir arguments of the calls made on the GCS backend
GcsPaths == { <<"a">>, <<"d", "/", "a">> }

GcsUploadDirs == { <<"d">>, <<"d", "/">> }

\* arguments of the GCS CreateDirectory, which appends the separator itself
GcsDirArgs == { <<"d">> }

UploadNames == { <<"a">> }

(***************************************************************************)
(* Driver names (FS interface file, const block)                           *)
(***************************************************************************)
DRIVER_MEMORY == "memory"

DRIVER_GCS == "gcs"

(***************************************************************************)
(* Error values                                                            *)
(***************************************************************************)
Nil == "nil"

\* os.ErrNotExist
ErrNotExist == "os.ErrNotExist"

\* errors.New("directory path must end with '/'")
ErrDirPath == "directory path must end with '/'"

\* errors.New("open is not supported for in-memory storage")
ErrOpenUnsupported == "open is not supported for in-memory storage"

\* the error a failing multipart.File returns to io.Copy
ErrStreamRead == "stream read error"

(***************************************************************************)
(* String helpers                                                          *)
(***************************************************************************)
\* strings.HasSuffix(s, suffix)
HasSuffix(s, suffix) ==
    /\ Len(s) >= Len(suffix)
    /\ SubSeq(s, Len(s) - Len(suffix) + 1, Len(s)) = suffix

\* filepath.Clean, backtracking over a ".." element: drop the last element of out
RECURSIVE CleanBacktrack(_, _, _)
CleanBacktrack(out, w, dotdot) ==
    IF w > dotdot /\ out[w + 1] # "/"
    THEN CleanBacktrack(out, w - 1, dotdot)
    ELSE SubSeq(out, 1, w)

\* index of the first separator of path at or after r (Len(path)+1 if none)
RECURSIVE ElemEnd(_, _)
ElemEnd(path, r) ==
    IF r > Len(path) \/ path[r] = "/" THEN r ELSE ElemEnd(path, r + 1)

\* the loop of filepath.Clean (r is 1-based here)
RECURSIVE CleanLoop(_, _, _, _, _)
CleanLoop(path, r, out, dotdot, rooted) ==
    LET n == Len(path) IN
    IF r > n THEN out
    ELSE IF path[r] = "/" THEN CleanLoop(path, r + 1, out, dotdot, rooted)
    ELSE IF path[r] = "." /\ (r = n \/ path[r + 1] = "/")
         THEN CleanLoop(path, r + 1, out, dotdot, rooted)
    ELSE IF path[r] = "." /\ path[r + 1] = "." /\ (r + 1 = n \/ path[r + 2] = "/")
         THEN IF Len(out) > dotdot
              THEN CleanLoop(path, r + 2, CleanBacktrack(out, Len(out) - 1, dotdot),
                             dotdot, rooted)
              ELSE IF ~rooted
                   THEN LET o2 == (IF Len(out) > 0 THEN out \o <<"/">> ELSE out)
                                  \o <<".", ".">>
                        IN  CleanLoop(path, r + 2, o2, Len(o2), rooted)
                   ELSE CleanLoop(path, r + 2, out, dotdot, rooted)
    ELSE LET o2 == IF (rooted /\ Len(out) # 1) \/ (~rooted /\ Len(out) # 0)
                   THEN out \o <<"/">> ELSE out
             e  == ElemEnd(path, r)
         IN  CleanLoop(path, e, o2 \o SubSeq(path, r, e - 1), dotdot, rooted)

\* filepath.Clean(path)
Clean(path) ==
    IF path = <<>> THEN <<".">>
    ELSE LET rooted == path[1] = "/"
             out == IF rooted
                    THEN CleanLoop(path, 2, <<"/">>, 1, TRUE)
                    ELSE CleanLoop(path, 1, <<>>, 0, FALSE)
         IN  IF out = <<>> THEN <<".">> ELSE out

\* filepath.Join(dir, name): empty leading elements are skipped, the rest is
\* joined with the separator and cleaned
Join(dir, name) ==
    IF dir # <<>> THEN Clean(dir \o <<"/">> \o name)
    ELSE IF name # <<>> THEN Clean(name)
    ELSE <<>>

(***************************************************************************)
(* Go map primitives                                                       *)
(***************************************************************************)
\* m[k] = v
MapSet(m, k, v) == [x \in (DOMAIN m) \cup {k} |-> IF x = k THEN v ELSE m[x]]

\* delete(m, k)
MapDelete(m, k) == [x \in (DOMAIN m) \ {k} |-> m[x]]

\* make(map[string]*File)
EmptyMap == [x \in {} |-> <<>>]

\* &File{Name: name, Content: bytes.NewBuffer(content)}
File(name, content) == [Name |-> name, Content |-> content]

(***************************************************************************)
(* The record of a call                                                    *)
(***************************************************************************)
\* op: the operation; a, b: its path arguments (Upload: a = dir, b = filename);
\* c: the bytes passed in; inj: the failure injected into the call;
\* err: the returned error; bytes / ok / url / handle: the returned value.
\* A handle is <<>> for a nil *os.File.
Call(op, a, b, c, inj, err, bytes, ok, url, handle) ==
    [op |-> op, a |-> a, b |-> b, c |-> c, inj |-> inj, err |-> err,
     bytes |-> bytes, ok |-> ok, url |-> url, handle |-> handle]

NoCall == Call("none", <<>>, <<>>, <<>>, "none", Nil, <<>>, FALSE, <<>>, <<>>)

\* "mem://"
MemScheme == <<"m", "e", "m", ":", "/", "/">>

(***************************************************************************)
(* MemoryStorage.  Each ...Body operator is what the method does between   *)
(* taking and releasing fs.mu: <<the map afterwards, the call's record>>.  *)
(***************************************************************************)
ReadBody(f, path) ==
    IF path \notin DOMAIN f
    THEN <<f, Call("Read", path, <<>>, <<>>, "none", ErrNotExist, <<>>, FALSE, <<>>, <<>>)>>
    ELSE <<f, Call("Read", path, <<>>, <<>>, "none", Nil, f[path].Content, FALSE, <<>>, <<>>)>>

\* WriteBody with the bytes appended to the buffer already stored at path
WriteBody_Append(f, path, contents) ==
    <<MapSet(f, path,
             File(path, IF path \in DOMAIN f THEN f[path].Content \o contents ELSE contents)),
      Call("Write", path, <<>>, contents, "none", Nil, <<>>, FALSE, <<>>, <<>>)>>

WriteBody(f, path, contents) ==
    <<MapSet(f, path, File(path, contents)),
      Call("Write", path, <<>>, contents, "none", Nil, <<>>, FALSE, <<>>, <<>>)>>

\* DeleteBody that removes every key under the path as well
DeleteBody_Prefix(f, path) ==
    IF path \notin DOMAIN f
    THEN <<f, Call("Delete", path, <<>>, <<>>, "none", ErrNotExist, <<>>, FALSE, <<>>, <<>>)>>
    ELSE <<[k \in {q \in DOMAIN f : ~(Len(path) <= Len(q) /\ SubSeq(q, 1, Len(path)) = path)}
                |-> f[k]],
           Call("Delete", path, <<>>, <<>>, "none", Nil, <<>>, FALSE, <<>>, <<>>)>>

\* DeleteBody without its existence check
DeleteBody_Silent(f, path) ==
    <<MapDelete(f, path), Call("Delete", path, <<>>, <<>>, "none", Nil, <<>>, FALSE, <<>>, <<>>)>>

DeleteBody(f, path) ==
    IF path \notin DOMAIN f
    THEN <<f, Call("Delete", path, <<>>, <<>>, "none", ErrNotExist, <<>>, FALSE, <<>>, <<>>)>>
    ELSE <<MapDelete(f, path),
           Call("Delete", path, <<>>, <<>>, "none", Nil, <<>>, FALSE, <<>>, <<>>)>>

\* ExistsBody reporting absence as an error
ExistsBody_NotFound(f, path) ==
    <<f, Call("Exists", path, <<>>, <<>>, "none",
              IF path \in DOMAIN f THEN Nil ELSE ErrNotExist,
              <<>>, path \in DOMAIN f, <<>>, <<>>)>>

ExistsBody(f, path) ==
    <<f, Call("Exists", path, <<>>, <<>>, "none", Nil, <<>>, path \in DOMAIN f, <<>>, <<>>)>>

\* RenameBody without the delete of oldPath
RenameBody_KeepsOld(f, oldPath, newPath) ==
    IF oldPath \notin DOMAIN f
    THEN <<f, Call("Rename", oldPath, newPath, <<>>, "none", ErrNotExist,
                   <<>>, FALSE, <<>>, <<>>)>>
    ELSE <<MapSet(f, newPath, f[oldPath]),
           Call("Rename", oldPath, newPath, <<>>, "none", Nil, <<>>, FALSE, <<>>, <<>>)>>

RenameBody(f, oldPath, newPath) ==
    IF oldPath \notin DOMAIN f
    THEN <<f, Call("Rename", oldPath, newPath, <<>>, "none", ErrNotExist,
                   <<>>, FALSE, <<>>, <<>>)>>
    ELSE <<MapDelete(MapSet(f, newPath, f[oldPath]), oldPath),
           Call("Rename", oldPath, newPath, <<>>, "none", Nil, <<>>, FALSE, <<>>, <<>>)>>

\* CopyBody that takes the source's buffer away with it
CopyBody_Move(f, sourcePath, destinationPath) ==
    IF sourcePath \notin DOMAIN f
    THEN <<f, Call("Copy", sourcePath, destinationPath, <<>>, "none", ErrNotExist,
                   <<>>, FALSE, <<>>, <<>>)>>
    ELSE <<MapSet(MapSet(f, sourcePath, File(sourcePath, <<>>)), destinationPath,
                  File(destinationPath, f[sourcePath].Content)),
           Call("Copy", sourcePath, destinationPath, <<>>, "none", Nil,
                <<>>, FALSE, <<>>, <<>>)>>

CopyBody(f, sourcePath, destinationPath) ==
    IF sourcePath \notin DOMAIN f
    THEN <<f, Call("Copy", sourcePath, destinationPath, <<>>, "none", ErrNotExist,
                   <<>>, FALSE, <<>>, <<>>)>>
    ELSE <<MapSet(f, destinationPath, File(destinationPath, f[sourcePath].Content)),
           Call("Copy", sourcePath, destinationPath, <<>>, "none", Nil,
                <<>>, FALSE, <<>>, <<>>)>>

\* CreateDirectoryBody that stores an empty marker at a well-formed path
CreateDirectoryBody_Marker(f, path) ==
    IF ~HasSuffix(path, <<"/">>)
    THEN <<f, Call("CreateDirectory", path, <<>>, <<>>, "none", ErrDirPath,
                   <<>>, FALSE, <<>>, <<>>)>>
    ELSE <<MapSet(f, path, File(path, <<>>)),
           Call("CreateDirectory", path, <<>>, <<>>, "none", Nil, <<>>, FALSE, <<>>, <<>>)>>

\* CreateDirectory takes no lock and does not touch the map
CreateDirectoryBody(f, path) ==
    <<f, Call("CreateDirectory", path, <<>>, <<>>, "none",
              IF ~HasSuffix(path, <<"/">>) THEN ErrDirPath ELSE Nil,
              <<>>, FALSE, <<>>, <<>>)>>

\* GetUrl, given what its call of fs.Exists(path) returned
GetUrlReturn(path, exists) ==
    IF ~exists
    THEN Call("GetUrl", path, <<>>, <<>>, "none", ErrNotExist, <<>>, FALSE, <<>>, <<>>)
    ELSE Call("GetUrl", path, <<>>, <<>>, "none", Nil, <<>>, FALSE, MemScheme \o path, <<>>)

OpenBody(f, path) ==
    <<f, Call("Open", path, <<>>, <<>>, "none", ErrOpenUnsupported, <<>>, FALSE, <<>>, <<>>)>>

\* UploadBody that stores what it had read when the stream failed
UploadBody_StoresPartial(f, data, inj, filename, dir) ==
    LET filePath == Join(dir, filename) IN
    <<MapSet(f, filePath, File(filePath, data)),
      Call("Upload", dir, filename, data, inj,
           IF inj = "stream" THEN ErrStreamRead ELSE Nil, <<>>, FALSE, <<>>, <<>>)>>

\* data: the bytes the stream yields; inj = "stream": reading it ends in an error
UploadBody(f, data, inj, filename, dir) ==
    IF inj = "stream"
    THEN <<f, Call("Upload", dir, filename, data, inj, ErrStreamRead, <<>>, FALSE, <<>>, <<>>)>>
    ELSE LET filePath == Join(dir, filename) IN
         <<MapSet(f, filePath, File(filePath, data)),
           Call("Upload", dir, filename, data, inj, Nil, <<>>, FALSE, <<>>, <<>>)>>

\* a call made with no other call in progress: the lock is free, the method
\* runs from entry to return
Sequential(r) ==
    /\ driver = DRIVER_MEMORY
    /\ files' = r[1]
    /\ last' = r[2]
    /\ UNCHANGED <<driver, bucket, tempFiles, threads, mu, crashed, written, pending>>

MemoryStorage_Read(path) == Sequential(ReadBody(files, path))

MemoryStorage_Write(path, contents) == Sequential(WriteBody(files, path, contents))

MemoryStorage_Delete(path) == Sequential(DeleteBody(files, path))

MemoryStorage_Exists(path) == Sequential(ExistsBody(files, path))

MemoryStorage_Rename(oldPath, newPath) == Sequential(RenameBody(files, oldPath, newPath))

MemoryStorage_Copy(sourcePath, destinationPath) ==
    Sequential(CopyBody(files, sourcePath, destinationPath))

MemoryStorage_CreateDirectory(path) == Sequential(CreateDirectoryBody(files, path))

MemoryStorage_GetUrl(path) ==
    Sequential(<<files, GetUrlReturn(path, ExistsBody(files, path)[2].ok)>>)

MemoryStorage_Open(path) == Sequential(OpenBody(files, path))

MemoryStorage_Upload(data, inj, filename, dir) ==
    Sequential(UploadBody(files, data, inj, filename, dir))

(***************************************************************************)
(* GCSStorage.  The bucket is the remote object store the client talks to; *)
(* every remote call may fail with a transport error, and a failed call    *)
(* has had no effect on the bucket.                                        *)
(***************************************************************************)
\* storage.ErrObjectNotExist
ErrObjectNotExist == "storage.ErrObjectNotExist"

\* any other error of the remote store or the network
ErrTransport == "transport error"

\* an error of the local disk (os.CreateTemp, io.Copy into the file, Seek)
ErrLocalIO == "local i/o error"

\* the error text the remote gives for a failed precondition
ErrPrecondition == "googleapi: Error 412: PreconditionFailed"

\* gcs.BucketName
BucketName == <<"b">>

\* what is stored under key p in the object map o: <<bytes>>, or <<>> if nothing
ObjAt(o, p) == IF p \in DOMAIN o THEN <<o[p]>> ELSE <<>>

\* fmt.Sprintf("%s/%s", dir, filename)
ObjectPath(dir, filename) == dir \o <<"/">> \o filename

(* GCSStorage holds no lock and Rename and Upload make two remote calls each,  *)
(* so between the two the bucket is open to the other clients of the bucket    *)
(* (other goroutines using the same GCSStorage, other processes).  pending is  *)
(* the Rename or Upload that has made its first remote call and not yet its    *)
(* second; every other action below is a call of any client, made while        *)
(* pending waits.  A Rename or Upload of another client made meanwhile acts on *)
(* the bucket as its own remote calls do, which are those of Copy and Delete,  *)
(* and of Write and Open.                                                      *)

\* no call is between its remote calls
NoPending == [op |-> "none", a |-> <<>>, b |-> <<>>, c |-> <<>>, others |-> FALSE]

\* the call op(a, b) after its first remote call.  c: of a Rename the bytes that
\* were copied, of an Upload the bytes that were stored; others: another
\* client has since changed an object the call is about
InFlight(op, a, b, c) == [op |-> op, a |-> a, b |-> b, c |-> c, others |-> FALSE]

\* the keys the call in flight is about
PendingKeys ==
    IF pending.op = "Rename" THEN {pending.a, pending.b}
    ELSE IF pending.op = "Upload" THEN {ObjectPath(pending.a, pending.b)}
    ELSE {}

\* pending after a call of another client has left the bucket as b2
Overtaken(b2) ==
    IF \E k \in PendingKeys : ObjAt(b2, k) # ObjAt(bucket, k)
    THEN [pending EXCEPT !.others = TRUE]
    ELSE pending

\* the records of a first remote call that has succeeded: gcs.Copy inside
\* Rename, wc.Close inside Upload
StepCopied == "Rename/Copy"

StepStored == "Upload/Close"

\* "https://storage.googleapis.com/"
GcsUrlPrefix ==
    <<"h", "t", "t", "p", "s", ":", "/", "/", "s", "t", "o", "r", "a", "g", "e", ".",
      "g", "o", "o", "g", "l", "e", "a", "p", "i", "s", ".", "c", "o", "m", "/">>

\* is s a prefix of t
IsPrefix(s, t) == Len(s) <= Len(t) /\ SubSeq(t, 1, Len(s)) = s

\* what a *os.File handle reads from its position on; <<>> is the nil handle
HandleBytes(h, temps) ==
    IF h = <<>> THEN <<>>
    ELSE SubSeq(temps[h[1].id], h[1].pos + 1, Len(temps[h[1].id]))

GCSStorage_Read(path, inj) ==
    /\ driver = DRIVER_GCS
    /\ last' = IF inj = "reader"
               THEN Call("Read", path, <<>>, <<>>, inj, ErrTransport, <<>>, FALSE, <<>>, <<>>)
               ELSE IF path \notin DOMAIN bucket
               THEN Call("Read", path, <<>>, <<>>, inj, ErrObjectNotExist, <<>>, FALSE, <<>>, <<>>)
               ELSE Call("Read", path, <<>>, <<>>, inj, Nil, bucket[path], FALSE, <<>>, <<>>)
    /\ UNCHANGED <<driver, files, bucket, tempFiles, threads, mu, crashed, written, pending>>

\* inj = "write": writer.Write fails; inj = "close": the deferred writer.Close,
\* which commits the object, fails and its error is dropped
GCSStorage_Write(path, contents, inj) ==
    /\ driver = DRIVER_GCS
    /\ IF inj = "write"
       THEN /\ last' = Call("Write", path, <<>>, contents, inj, ErrTransport,
                            <<>>, FALSE, <<>>, <<>>)
            /\ UNCHANGED bucket
       ELSE /\ last' = Call("Write", path, <<>>, contents, inj, Nil, <<>>, FALSE, <<>>, <<>>)
            /\ bucket' = IF inj = "close" THEN bucket ELSE MapSet(bucket, path, contents)
    /\ pending' = Overtaken(bucket')
    /\ UNCHANGED <<driver, files, tempFiles, threads, mu, crashed, written>>

\* RemoteDelete that reports success for an absent object
RemoteDelete_Idempotent(b, path, inj) ==
    IF inj = "delete" THEN <<ErrTransport, b>>
    ELSE IF path \notin DOMAIN b THEN <<Nil, b>>
    ELSE <<Nil, MapDelete(b, path)>>

\* the remote delete: <<error, bucket afterwards>>
RemoteDelete(b, path, inj) ==
    IF inj = "delete" THEN <<ErrTransport, b>>
    ELSE IF path \notin DOMAIN b THEN <<ErrObjectNotExist, b>>
    ELSE <<Nil, MapDelete(b, path)>>

GCSStorage_Delete(path, inj) ==
    /\ driver = DRIVER_GCS
    /\ LET r == RemoteDelete(bucket, path, inj) IN
       /\ bucket' = r[2]
       /\ last' = Call("Delete", path, <<>>, <<>>, inj, r[1], <<>>, FALSE, <<>>, <<>>)
    /\ pending' = Overtaken(bucket')
    /\ UNCHANGED <<driver, files, tempFiles, threads, mu, crashed, written>>

GCSStorage_Exists(path, inj) ==
    /\ driver = DRIVER_GCS
    /\ last' = IF inj = "attrs"
               THEN Call("Exists", path, <<>>, <<>>, inj, ErrTransport, <<>>, FALSE, <<>>, <<>>)
               ELSE Call("Exists", path, <<>>, <<>>, inj, Nil, <<>>,
                         path \in DOMAIN bucket, <<>>, <<>>)
    /\ UNCHANGED <<driver, files, bucket, tempFiles, threads, mu, crashed, written, pending>>

\* dst.CopierFrom(src).Run: <<error, bucket afterwards>>
RemoteCopy(b, sourcePath, destPath, inj) ==
    IF inj = "copy" THEN <<ErrTransport, b>>
    ELSE IF sourcePath \notin DOMAIN b THEN <<ErrObjectNotExist, b>>
    ELSE <<Nil, MapSet(b, destPath, b[sourcePath])>>

GCSStorage_Copy(sourcePath, destPath, inj) ==
    /\ driver = DRIVER_GCS
    /\ LET r == RemoteCopy(bucket, sourcePath, destPath, inj) IN
       /\ bucket' = r[2]
       /\ last' = Call("Copy", sourcePath, destPath, <<>>, inj, r[1], <<>>, FALSE, <<>>, <<>>)
    /\ pending' = Overtaken(bucket')
    /\ UNCHANGED <<driver, files, tempFiles, threads, mu, crashed, written>>

\* GCSStorage_Rename that goes on to the delete whatever the copy returned
GCSStorage_Rename_AlwaysDelete(oldPath, newPath, inj) ==
    /\ driver = DRIVER_GCS
    /\ pending = NoPending
    /\ LET c == RemoteCopy(bucket, oldPath, newPath, inj) IN
       /\ bucket' = c[2]
       /\ last' = Call(StepCopied, oldPath, newPath, <<>>, inj, c[1],
                       <<>>, FALSE, <<>>, <<>>)
       /\ pending' = InFlight("Rename", oldPath, newPath,
                              IF oldPath \in DOMAIN bucket THEN bucket[oldPath] ELSE <<>>)
    /\ UNCHANGED <<driver, files, tempFiles, threads, mu, crashed, written>>

\* Rename up to the return of gcs.Copy(oldPath, newPath): its error is
\* returned, or the call goes on to the delete.  inj = "copy": the copy fails
GCSStorage_Rename(oldPath, newPath, inj) ==
    /\ driver = DRIVER_GCS
    /\ pending = NoPending
    /\ LET c == RemoteCopy(bucket, oldPath, newPath, inj) IN
       /\ bucket' = c[2]
       /\ IF c[1] # Nil
          THEN /\ last' = Call("Rename", oldPath, newPath, <<>>, inj, c[1],
                               <<>>, FALSE, <<>>, <<>>)
               /\ pending' = pending
          ELSE /\ last' = Call(StepCopied, oldPath, newPath, <<>>, inj, Nil,
                               <<>>, FALSE, <<>>, <<>>)
               /\ pending' = InFlight("Rename", oldPath, newPath, bucket[oldPath])
    /\ UNCHANGED <<driver, files, tempFiles, threads, mu, crashed, written>>

\* the rest of Rename: return gcs.Delete(oldPath), on the bucket as it is by
\* then.  inj = "delete": the delete fails
GCSStorage_RenameDelete(inj) ==
    /\ driver = DRIVER_GCS
    /\ pending.op = "Rename"
    /\ LET d == RemoteDelete(bucket, pending.a, inj) IN
       /\ bucket' = d[2]
       /\ last' = Call("Rename", pending.a, pending.b, <<>>, inj, d[1],
                       <<>>, FALSE, <<>>, <<>>)
    /\ pending' = NoPending
    /\ UNCHANGED <<driver, files, tempFiles, threads, mu, crashed, written>>

\* GCSStorage_CreateDirectory that returns every error of w.Close, the
\* "PreconditionFailed" one included
GCSStorage_CreateDirectory_Strict(path, inj) ==
    /\ driver = DRIVER_GCS
    /\ IF inj \in {"close", "precondition"}
       THEN /\ last' = Call("CreateDirectory", path, <<>>, <<>>, inj,
                            IF inj = "close" THEN ErrTransport ELSE ErrPrecondition,
                            <<>>, FALSE, <<>>, <<>>)
            /\ UNCHANGED bucket
       ELSE /\ last' = Call("CreateDirectory", path, <<>>, <<>>, inj, Nil,
                            <<>>, FALSE, <<>>, <<>>)
            /\ bucket' = MapSet(bucket, path \o <<"/">>, <<>>)
    /\ pending' = Overtaken(bucket')
    /\ UNCHANGED <<driver, files, tempFiles, threads, mu, crashed, written>>

\* inj = "close": w.Close fails with another error; inj = "precondition": it
\* fails with an error whose text contains "PreconditionFailed"
GCSStorage_CreateDirectory(path, inj) ==
    /\ driver = DRIVER_GCS
    /\ IF inj = "close"
       THEN /\ last' = Call("CreateDirectory", path, <<>>, <<>>, inj, ErrTransport,
                            <<>>, FALSE, <<>>, <<>>)
            /\ UNCHANGED bucket
       ELSE /\ last' = Call("CreateDirectory", path, <<>>, <<>>, inj, Nil,
                            <<>>, FALSE, <<>>, <<>>)
            /\ bucket' = IF inj = "precondition" THEN bucket
                         ELSE MapSet(bucket, path \o <<"/">>, <<>>)
    /\ pending' = Overtaken(bucket')
    /\ UNCHANGED <<driver, files, tempFiles, threads, mu, crashed, written>>

GCSStorage_GetUrl(path) ==
    /\ driver = DRIVER_GCS
    /\ last' = Call("GetUrl", path, <<>>, <<>>, "none", Nil, <<>>, FALSE,
                    GcsUrlPrefix \o BucketName \o <<"/">> \o path, <<>>)
    /\ UNCHANGED <<driver, files, bucket, tempFiles, threads, mu, crashed, written, pending>>

\* OpenFile without the Seek back to the start
OpenFile_NoRewind(b, temps, path, inj, part) ==
    IF inj = "reader" THEN <<ErrTransport, <<>>, temps>>
    ELSE IF path \notin DOMAIN b THEN <<ErrObjectNotExist, <<>>, temps>>
    ELSE IF inj = "createtemp" THEN <<ErrLocalIO, <<>>, temps>>
    ELSE IF inj = "copy" THEN <<ErrLocalIO, <<>>, Append(temps, part)>>
    ELSE <<Nil, <<[id |-> Len(temps) + 1, pos |-> Len(b[path])]>>, Append(temps, b[path])>>

\* OpenFile that downloads into one fixed temporary file
OpenFile_FixedTemp(b, temps, path, inj, part) ==
    LET fixed(x) == IF temps = <<>> THEN <<x>> ELSE <<x>> \o Tail(temps) IN
    IF inj = "reader" THEN <<ErrTransport, <<>>, temps>>
    ELSE IF path \notin DOMAIN b THEN <<ErrObjectNotExist, <<>>, temps>>
    ELSE IF inj = "createtemp" THEN <<ErrLocalIO, <<>>, temps>>
    ELSE IF inj = "copy" THEN <<ErrLocalIO, <<>>, fixed(part)>>
    ELSE IF inj = "seek" THEN <<ErrLocalIO, <<>>, fixed(b[path])>>
    ELSE <<Nil, <<[id |-> 1, pos |-> 0]>>, fixed(b[path])>>

\* GCSStorage.Open on bucket b with temporary files temps:
\* <<error, handle, temporary files afterwards>>.  inj names the failing step
\* ("reader", "createtemp", "copy", "seek" or "none"); part is what io.Copy
\* had written when it failed.
OpenFile(b, temps, path, inj, part) ==
    IF inj = "reader" THEN <<ErrTransport, <<>>, temps>>
    ELSE IF path \notin DOMAIN b THEN <<ErrObjectNotExist, <<>>, temps>>
    ELSE IF inj = "createtemp" THEN <<ErrLocalIO, <<>>, temps>>
    ELSE IF inj = "copy" THEN <<ErrLocalIO, <<>>, Append(temps, part)>>
    ELSE IF inj = "seek" THEN <<ErrLocalIO, <<>>, Append(temps, b[path])>>
    ELSE <<Nil, <<[id |-> Len(temps) + 1, pos |-> 0]>>, Append(temps, b[path])>>

\* the inputs OpenFile is defined for: part is a proper prefix of the object
\* that io.Copy was copying
OpenInputOk(b, temps, path, inj, part) ==
    IF inj = "copy" /\ path \in DOMAIN b
    THEN IsPrefix(part, b[path]) /\ part # b[path]
    ELSE part = <<>>

\* fewer than max temporary files exist, so a call may create another
TempRoom(max) == Len(tempFiles) < max

GCSStorage_Open(path, inj, part) ==
    /\ driver = DRIVER_GCS
    /\ OpenInputOk(bucket, tempFiles, path, inj, part)
    /\ LET r == OpenFile(bucket, tempFiles, path, inj, part) IN
       /\ tempFiles' = r[3]
       /\ last' = Call("Open", path, <<>>, <<>>, inj, r[1], <<>>, FALSE, <<>>, r[2])
    /\ UNCHANGED <<driver, files, bucket, threads, mu, crashed, written, pending>>

\* Upload up to the return of wc.Close, which commits the object: an error is
\* returned, or the call goes on to gcs.Open.  inj: "stream" (reading the
\* source fails), "write" (writing to the object writer fails), "close"
\* (wc.Close fails) or "none"
GCSStorage_Upload(data, filename, dir, inj) ==
    /\ driver = DRIVER_GCS
    /\ pending = NoPending
    /\ IF inj \in {"stream", "write", "close"}
       THEN /\ last' = Call("Upload", dir, filename, data, inj,
                            IF inj = "stream" THEN ErrStreamRead ELSE ErrTransport,
                            <<>>, FALSE, <<>>, <<>>)
            /\ UNCHANGED <<bucket, pending>>
       ELSE /\ bucket' = MapSet(bucket, ObjectPath(dir, filename), data)
            /\ last' = Call(StepStored, dir, filename, data, inj, Nil,
                            <<>>, FALSE, <<>>, <<>>)
            /\ pending' = InFlight("Upload", dir, filename, data)
    /\ UNCHANGED <<driver, files, tempFiles, threads, mu, crashed, written>>

\* the rest of Upload: return gcs.Open(objectPath), on the bucket as it is by
\* then.  inj and part as for Open
GCSStorage_UploadOpen(inj, part) ==
    /\ driver = DRIVER_GCS
    /\ pending.op = "Upload"
    /\ LET objectPath == ObjectPath(pending.a, pending.b)
           r == OpenFile(bucket, tempFiles, objectPath, inj, part)
       IN  /\ OpenInputOk(bucket, tempFiles, objectPath, inj, part)
           /\ tempFiles' = r[3]
           /\ last' = Call("Upload", pending.a, pending.b, pending.c, inj, r[1],
                           <<>>, FALSE, <<>>, r[2])
    /\ pending' = NoPending
    /\ UNCHANGED <<driver, files, bucket, threads, mu, crashed, written>>

(***************************************************************************)
(* Concurrent callers of the memory backend.  A call takes fs.mu the way   *)
(* its method does (RLock or Lock), runs the method's body, and releases   *)
(* it; CreateDirectory and Open never touch the lock, and GetUrl holds it  *)
(* only inside its call of Exists.                                         *)
(*                                                                         *)
(* mu.w is the caller that has passed Lock's writer mutex (it has          *)
(* announced itself, so RLock blocks from then on); mu.readers are the     *)
(* callers holding a read lock.                                            *)
(***************************************************************************)
Threads == {"t1", "t2"}

\* path arguments of the concurrent calls
ConcPaths == { <<"a">>, <<"d", "/", "a">> }

\* src: the bytes of the source a Copy has looked up and not yet stored
Idle == [pc |-> "idle", call |-> NoCall, exists |-> FALSE, src |-> <<>>]

\* the zero sync.RWMutex
MuFree == [w |-> "none", readers |-> {}]

\* a call that has not returned yet
Request(op, a, b, c, inj) == Call(op, a, b, c, inj, Nil, <<>>, FALSE, <<>>, <<>>)

\* LockKind with Write taking the read lock
LockKind_WriteShared(op) ==
    IF op \in {"Delete", "Rename", "Upload"} THEN "Lock"
    ELSE IF op \in {"Read", "Exists", "Copy", "GetUrl", "Write"} THEN "RLock"
    ELSE "none"

\* LockKind with Rename taking the read lock
LockKind_RenameShared(op) ==
    IF op \in {"Write", "Delete", "Upload"} THEN "Lock"
    ELSE IF op \in {"Read", "Exists", "Copy", "GetUrl", "Rename"} THEN "RLock"
    ELSE "none"

\* how each method takes fs.mu
LockKind(op) ==
    IF op \in {"Write", "Delete", "Rename", "Upload"} THEN "Lock"
    ELSE IF op \in {"Read", "Exists", "Copy", "GetUrl"} THEN "RLock"
    ELSE "none"

\* the body of the method a request names (GetUrl: the body of its Exists call)
BodyOf(f, req) ==
    CASE req.op = "Read" -> ReadBody(f, req.a)
      [] req.op = "Write" -> WriteBody(f, req.a, req.c)
      [] req.op = "Delete" -> DeleteBody(f, req.a)
      [] req.op = "Exists" -> ExistsBody(f, req.a)
      [] req.op = "Rename" -> RenameBody(f, req.a, req.b)
      [] req.op = "Copy" -> CopyBody(f, req.a, req.b)
      [] req.op = "CreateDirectory" -> CreateDirectoryBody(f, req.a)
      [] req.op = "GetUrl" -> ExistsBody(f, req.a)
      [] req.op = "Open" -> OpenBody(f, req.a)
      [] req.op = "Upload" -> UploadBody(f, req.c, req.inj, req.b, req.a)

\* the methods whose body assigns to or deletes from fs.files
Mutators == {"Write", "Delete", "Rename", "Copy", "Upload"}

\* t is between acquiring and releasing fs.mu ("cs2": a Rename that has
\* assigned the new key and not yet deleted the old one; "copy2": a Copy that
\* has looked its source up and not yet assigned the destination)
InCS(t) == threads[t].pc \in {"cs", "cs2", "copy2", "unlock"}

\* t's body writes the map (it has, or it is about to)
WritesMap(t) ==
    /\ threads[t].call.op \in Mutators
    /\ IF threads[t].pc = "cs"
       THEN BodyOf(files, threads[t].call)[2].err = Nil
       ELSE threads[t].call.err = Nil

\* t's map access is unsynchronised with a map write: a data race
Race(t) ==
    \E u \in Threads \ {t} : InCS(u) /\ (WritesMap(t) \/ WritesMap(u))

Conc_Call(t, req) ==
    /\ ~crashed
    /\ threads[t].pc = "idle"
    /\ LockKind(req.op) # "none"
    /\ threads' = [threads EXCEPT ![t] = [Idle EXCEPT !.pc = "lock", !.call = req]]
    /\ UNCHANGED <<driver, files, bucket, tempFiles, last, mu, crashed, written, pending>>

\* CreateDirectory and Open: no lock, no access to the map; the caller has
\* the result BodyOf(files, req)[2] at "return"
Conc_CallUnlocked(t, req) ==
    /\ ~crashed
    /\ threads[t].pc = "idle"
    /\ LockKind(req.op) = "none"
    /\ threads' = [threads EXCEPT ![t] =
                      [Idle EXCEPT !.pc = "return", !.call = BodyOf(files, req)[2]]]
    /\ UNCHANGED <<driver, files, bucket, tempFiles, last, mu, crashed, written, pending>>

\* fs.mu.RLock()
Conc_RLock(t) ==
    /\ ~crashed
    /\ threads[t].pc = "lock"
    /\ LockKind(threads[t].call.op) = "RLock"
    /\ mu.w = "none"
    /\ mu' = [mu EXCEPT !.readers = @ \cup {t}]
    /\ threads' = [threads EXCEPT ![t].pc = "cs"]
    /\ UNCHANGED <<driver, files, bucket, tempFiles, last, crashed, written, pending>>

\* fs.mu.Lock(), first half: take the writer mutex and announce the writer
Conc_Lock(t) ==
    /\ ~crashed
    /\ threads[t].pc = "lock"
    /\ LockKind(threads[t].call.op) = "Lock"
    /\ mu.w = "none"
    /\ mu' = [mu EXCEPT !.w = t]
    /\ threads' = [threads EXCEPT ![t].pc = "drain"]
    /\ UNCHANGED <<driver, files, bucket, tempFiles, last, crashed, written, pending>>

\* fs.mu.Lock(), second half: the active readers have left
Conc_LockAcquired(t) ==
    /\ ~crashed
    /\ threads[t].pc = "drain"
    /\ mu.readers = {}
    /\ threads' = [threads EXCEPT ![t].pc = "cs"]
    /\ UNCHANGED <<driver, files, bucket, tempFiles, last, mu, crashed, written, pending>>

\* Rename's two writes of the map: fs.files[newPath] = file, then
\* delete(fs.files, oldPath)
RenameAssign(f, oldPath, newPath) == MapSet(f, newPath, f[oldPath])

RenameRemove(f, oldPath) == MapDelete(f, oldPath)

\* t's body is a Rename that found its source: it writes the map twice
RenamesInTwo(t) ==
    threads[t].call.op = "Rename" /\ threads[t].call.a \in DOMAIN files

\* Copy's two accesses of the map: sourceFile, exists := fs.files[sourcePath],
\* then fs.files[destinationPath] = &File{...} on the source's bytes
CopyLookup(f, sourcePath) == f[sourcePath].Content

CopyAssign(f, destinationPath, content) ==
    MapSet(f, destinationPath, File(destinationPath, content))

\* where t is after running the body of its call (not a Rename) on the map f:
\* a Copy that found its source holds the source's bytes and has not written yet
AfterBody(t, f) ==
    LET req == threads[t].call
        r == BodyOf(f, req)
    IN  IF req.op = "Copy" /\ req.a \in DOMAIN f
        THEN [pc |-> "copy2", call |-> req, exists |-> FALSE, src |-> CopyLookup(f, req.a)]
        ELSE IF req.op = "GetUrl"
        THEN [pc |-> "unlock", call |-> req, exists |-> r[2].ok, src |-> <<>>]
        ELSE [pc |-> "unlock", call |-> r[2], exists |-> FALSE, src |-> <<>>]

\* the method's body, run under the lock it took; of a Rename that found its
\* source, the part up to the assignment of the new key; of a Copy that found
\* its source, the lookup of the source
Conc_Body(t) ==
    /\ ~crashed
    /\ threads[t].pc = "cs"
    /\ IF RenamesInTwo(t)
       THEN /\ files' = RenameAssign(files, threads[t].call.a, threads[t].call.b)
            /\ threads' = [threads EXCEPT ![t].pc = "cs2"]
       ELSE /\ files' = IF threads[t].call.op = "Copy" THEN files
                        ELSE BodyOf(files, threads[t].call)[1]
            /\ threads' = [threads EXCEPT ![t] = AfterBody(t, files)]
    /\ UNCHANGED <<driver, bucket, tempFiles, last, mu, crashed, written, pending>>

\* the rest of Copy's body: the assignment of the destination; return nil
Conc_CopyAssign(t) ==
    /\ ~crashed
    /\ threads[t].pc = "copy2"
    /\ files' = CopyAssign(files, threads[t].call.b, threads[t].src)
    /\ threads' = [threads EXCEPT ![t] = [@ EXCEPT !.pc = "unlock", !.src = <<>>]]
    /\ UNCHANGED <<driver, bucket, tempFiles, last, mu, crashed, written, pending>>

\* the rest of Rename's body: delete(fs.files, oldPath); return nil
Conc_RenameDelete(t) ==
    /\ ~crashed
    /\ threads[t].pc = "cs2"
    /\ files' = RenameRemove(files, threads[t].call.a)
    /\ threads' = [threads EXCEPT ![t].pc = "unlock"]
    /\ UNCHANGED <<driver, bucket, tempFiles, last, mu, crashed, written, pending>>

\* the body runs into a data race on the map and the runtime stops the process
\* ("fatal error: concurrent map writes" / "concurrent map read and map write")
Conc_BodyFatal(t) ==
    /\ ~crashed
    /\ threads[t].pc \in {"cs", "cs2", "copy2"}
    /\ Race(t)
    /\ crashed' = TRUE
    /\ UNCHANGED <<driver, files, bucket, tempFiles, last, threads, mu, written, pending>>

\* the maps a racing access of fs.files may find or leave behind: any entries
\* under the keys in use
RacyMaps ==
    LET entries == {<<>>} \cup {<<File(n, c)>> : n \in ConcPaths, c \in Contents}
        choices == [ConcPaths -> entries]
    IN  {[k \in {q \in ConcPaths : g[q] # <<>>} |-> g[k][1]] : g \in choices}

\* the body runs into a data race on the map that the runtime does not stop:
\* a racing lookup answers as if the map were f2, and a racing assignment
\* leaves the map as f2
Conc_BodyRacy(t, f2) ==
    /\ ~crashed
    /\ threads[t].pc \in {"cs", "copy2"}
    /\ Race(t)
    /\ IF threads[t].pc = "copy2"
       THEN /\ files' = f2
            /\ threads' = [threads EXCEPT ![t] = [@ EXCEPT !.pc = "unlock", !.src = <<>>]]
       ELSE /\ files' = files
            /\ threads' = [threads EXCEPT ![t] = AfterBody(t, f2)]
    /\ UNCHANGED <<driver, bucket, tempFiles, last, mu, crashed, written, pending>>

\* the deferred fs.mu.RUnlock() / fs.mu.Unlock()
Conc_Unlock(t) ==
    /\ ~crashed
    /\ threads[t].pc = "unlock"
    /\ mu' = IF LockKind(threads[t].call.op) = "Lock"
             THEN [mu EXCEPT !.w = "none"]
             ELSE [mu EXCEPT !.readers = @ \ {t}]
    /\ threads' = [threads EXCEPT ![t] =
              IF @.call.op = "GetUrl"
              THEN [Idle EXCEPT !.pc = "return",
                                !.call = GetUrlReturn(threads[t].call.a, threads[t].exists)]
              ELSE [Idle EXCEPT !.pc = "return", !.call = threads[t].call]]
    /\ UNCHANGED <<driver, files, bucket, tempFiles, last, crashed, written, pending>>

\* the method returns threads[t].call to its caller, who may call again
Conc_Return(t) ==
    /\ ~crashed
    /\ threads[t].pc = "return"
    /\ threads' = [threads EXCEPT ![t] = Idle]
    /\ UNCHANGED <<driver, files, bucket, tempFiles, last, mu, crashed, written, pending>>

\* the calls the concurrent callers make
ConcRequests ==
    {Request(op, p, <<>>, <<>>, "none") :
        op \in {"Read", "Delete", "Exists", "GetUrl", "Open"}, p \in ConcPaths}
    \cup {Request("Write", p, <<>>, c, "none") : p \in ConcPaths, c \in Contents}
    \cup {Request(op, p, q, <<>>, "none") :
             op \in {"Rename", "Copy"}, p \in ConcPaths, q \in ConcPaths}
    \cup {Request("CreateDirectory", p, <<>>, <<>>, "none") : p \in {<<"d">>, <<"d", "/">>}}
    \cup {Request("Upload", <<"d">>, <<"a">>, c, i) : c \in Contents, i \in {"none", "stream"}}

ConcNext ==
    \/ \E t \in Threads, req \in ConcRequests : Conc_Call(t, req)
    \/ \E t \in Threads, req \in ConcRequests : Conc_CallUnlocked(t, req)
    \/ \E t \in Threads : Conc_RLock(t)
    \/ \E t \in Threads : Conc_Lock(t)
    \/ \E t \in Threads : Conc_LockAcquired(t)
    \/ \E t \in Threads : Conc_Body(t)
    \/ \E t \in Threads : Conc_RenameDelete(t)
    \/ \E t \in Threads : Conc_CopyAssign(t)
    \/ \E t \in Threads : Conc_BodyFatal(t)
    \/ \E t \in Threads, f2 \in RacyMaps : Conc_BodyRacy(t, f2)
    \/ \E t \in Threads : Conc_Unlock(t)
    \/ \E t \in Threads : Conc_Return(t)

(***************************************************************************)
(* The memory backend with the history of its Writes kept                  *)
(***************************************************************************)
\* a whole call of the memory backend run alone
SeqResult(f, req) ==
    IF req.op = "GetUrl"
    THEN <<f, GetUrlReturn(req.a, ExistsBody(f, req.a)[2].ok)>>
    ELSE BodyOf(f, req)

\* the call req, made alone, with a successful Write added to the history
HistCall(req) ==
    /\ driver = DRIVER_MEMORY
    /\ LET r == SeqResult(files, req) IN
       /\ files' = r[1]
       /\ last' = r[2]
       /\ written' = IF r[2].op = "Write" /\ r[2].err = Nil
                     THEN written \cup {r[2].a} ELSE written
    /\ UNCHANGED <<driver, bucket, tempFiles, threads, mu, crashed, pending>>

\* path arguments of the calls whose history is kept
HistPaths == { <<"a">>, <<"d", "/", "a">> }

HistNext ==
    \/ \E p \in HistPaths : HistCall(Request("Read", p, <<>>, <<>>, "none"))
    \/ \E p \in HistPaths, c \in Contents : HistCall(Request("Write", p, <<>>, c, "none"))
    \/ \E p \in HistPaths : HistCall(Request("Delete", p, <<>>, <<>>, "none"))
    \/ \E p \in HistPaths : HistCall(Request("Exists", p, <<>>, <<>>, "none"))
    \/ \E p \in HistPaths, q \in HistPaths : HistCall(Request("Rename", p, q, <<>>, "none"))
    \/ \E p \in HistPaths, q \in HistPaths : HistCall(Request("Copy", p, q, <<>>, "none"))
    \/ \E p \in DirArgs : HistCall(Request("CreateDirectory", p, <<>>, <<>>, "none"))
    \/ \E p \in HistPaths : HistCall(Request("GetUrl", p, <<>>, <<>>, "none"))
    \/ \E p \in HistPaths : HistCall(Request("Open", p, <<>>, <<>>, "none"))
    \/ \E c \in Contents, i \in {"none", "stream"}, n \in UploadNames, d \in UploadDirs :
           HistCall(Request("Upload", d, n, c, i))

(***************************************************************************)
(* The two backends side by side: the same call is made on a MemoryStorage *)
(* (files) and on a GCSStorage (bucket), and last holds the two results.   *)
(***************************************************************************)
\* both stores have been constructed
BothDrivers == "memory+gcs"

\* a whole call of the GCS backend on bucket b, no other client acting between
\* its remote calls, req.inj naming the failing step:
\* <<bucket afterwards, call record>>
GCSResult(b, req) ==
    CASE req.op = "Read" ->
             <<b, IF req.inj = "reader" THEN [req EXCEPT !.err = ErrTransport]
                  ELSE IF req.a \notin DOMAIN b THEN [req EXCEPT !.err = ErrObjectNotExist]
                  ELSE [req EXCEPT !.bytes = b[req.a]]>>
      [] req.op = "Write" ->
             IF req.inj = "write" THEN <<b, [req EXCEPT !.err = ErrTransport]>>
             ELSE <<IF req.inj = "close" THEN b ELSE MapSet(b, req.a, req.c), req>>
      [] req.op = "Delete" ->
             LET d == RemoteDelete(b, req.a, req.inj)
             IN  <<d[2], [req EXCEPT !.err = d[1]]>>
      [] req.op = "Exists" ->
             <<b, IF req.inj = "attrs" THEN [req EXCEPT !.err = ErrTransport]
                  ELSE [req EXCEPT !.ok = (req.a \in DOMAIN b)]>>
      [] req.op = "Rename" ->
             LET c == RemoteCopy(b, req.a, req.b, req.inj)
                 d == RemoteDelete(c[2], req.a, req.inj)
             IN  IF c[1] # Nil THEN <<c[2], [req EXCEPT !.err = c[1]]>>
                 ELSE <<d[2], [req EXCEPT !.err = d[1]]>>
      [] req.op = "Copy" ->
             LET c == RemoteCopy(b, req.a, req.b, req.inj)
             IN  <<c[2], [req EXCEPT !.err = c[1]]>>

\* the call req made on both stores, the remote one failure-free
Pair_Call(req) ==
    /\ driver = BothDrivers
    /\ LET m == SeqResult(files, req)
           g == GCSResult(bucket, req)
       IN  /\ files' = m[1]
           /\ bucket' = g[1]
           /\ last' = [mem |-> m[2], gcs |-> g[2]]
    /\ UNCHANGED <<driver, tempFiles, threads, mu, crashed, written, pending>>

PairNext ==
    \/ \E p \in Paths : Pair_Call(Request("Read", p, <<>>, <<>>, "none"))
    \/ \E p \in Paths, c \in Contents : Pair_Call(Request("Write", p, <<>>, c, "none"))
    \/ \E p \in Paths : Pair_Call(Request("Delete", p, <<>>, <<>>, "none"))
    \/ \E p \in Paths : Pair_Call(Request("Exists", p, <<>>, <<>>, "none"))
    \/ \E p \in Paths, q \in Paths : Pair_Call(Request("Rename", p, q, <<>>, "none"))
    \/ \E p \in Paths, q \in Paths : Pair_Call(Request("Copy", p, q, <<>>, "none"))

\* NewMemoryStorage() and NewGCSStorage(...) on a new bucket
NewPair ==
    /\ driver = BothDrivers
    /\ files = EmptyMap
    /\ bucket = EmptyMap
    /\ tempFiles = <<>>
    /\ last = [mem |-> NoCall, gcs |-> NoCall]
    /\ threads = [t \in Threads |-> Idle]
    /\ mu = MuFree
    /\ crashed = FALSE
    /\ written = {}
    /\ pending = NoPending

(***************************************************************************)
(* Specification                                                           *)
(***************************************************************************)
\* NewMemoryStorage()
NewMemoryStorage ==
    /\ driver = DRIVER_MEMORY
    /\ files = EmptyMap
    /\ bucket = EmptyMap
    /\ tempFiles = <<>>
    /\ last = NoCall
    /\ threads = [t \in Threads |-> Idle]
    /\ mu = MuFree
    /\ crashed = FALSE
    /\ written = {}
    /\ pending = NoPending

\* NewGCSStorage(projectID, bucket, serviceAccountKey), on a new bucket
NewGCSStorage ==
    /\ driver = DRIVER_GCS
    /\ files = EmptyMap
    /\ bucket = EmptyMap
    /\ tempFiles = <<>>
    /\ last = NoCall
    /\ threads = [t \in Threads |-> Idle]
    /\ mu = MuFree
    /\ crashed = FALSE
    /\ written = {}
    /\ pending = NoPending

Init == NewMemoryStorage \/ NewGCSStorage

\* the calls of the memory backend
MemoryNext ==
    \/ \E p \in Paths : MemoryStorage_Read(p)
    \/ \E p \in Paths, c \in Contents : MemoryStorage_Write(p, c)
    \/ \E p \in Paths : MemoryStorage_Delete(p)
    \/ \E p \in Paths : MemoryStorage_Exists(p)
    \/ \E p \in Paths, q \in Paths : MemoryStorage_Rename(p, q)
    \/ \E p \in Paths, q \in Paths : MemoryStorage_Copy(p, q)
    \/ \E p \in DirArgs : MemoryStorage_CreateDirectory(p)
    \/ \E p \in Paths : MemoryStorage_GetUrl(p)
    \/ \E p \in Paths : MemoryStorage_Open(p)
    \/ \E c \in Contents, i \in {"none", "stream"}, n \in UploadNames, d \in UploadDirs :
           MemoryStorage_Upload(c, i, n, d)

OpenInj == {"none", "reader", "createtemp", "copy", "seek"}

\* the calls of the clients of the bucket that need no local file
GCSNext ==
    \/ \E p \in GcsPaths, i \in {"none", "reader"} : GCSStorage_Read(p, i)
    \/ \E p \in GcsPaths, c \in Contents, i \in {"none", "write", "close"} :
           GCSStorage_Write(p, c, i)
    \/ \E p \in GcsPaths, i \in {"none", "delete"} : GCSStorage_Delete(p, i)
    \/ \E p \in GcsPaths, i \in {"none", "attrs"} : GCSStorage_Exists(p, i)
    \/ \E p \in GcsPaths, q \in GcsPaths, i \in {"none", "copy"} : GCSStorage_Rename(p, q, i)
    \/ \E i \in {"none", "delete"} : GCSStorage_RenameDelete(i)
    \/ \E p \in GcsPaths, q \in GcsPaths, i \in {"none", "copy"} : GCSStorage_Copy(p, q, i)
    \/ \E p \in GcsDirArgs, i \in {"none", "close", "precondition"} :
           GCSStorage_CreateDirectory(p, i)
    \/ \E p \in GcsPaths : GCSStorage_GetUrl(p)

Next == MemoryNext \/ GCSNext

\* Upload and Open on either backend, and the Writes and Deletes made meanwhile
UploadNext ==
    \/ \E c \in Contents, i \in {"none", "stream"}, n \in UploadNames, d \in UploadDirs :
           MemoryStorage_Upload(c, i, n, d)
    \/ \E p \in Paths : MemoryStorage_Open(p)
    \/ \E p \in Paths, c \in Contents : MemoryStorage_Write(p, c)
    \/ \E p \in Paths : MemoryStorage_Delete(p)
    \/ \E c \in Contents, n \in UploadNames, d \in GcsUploadDirs,
          i \in {"none", "stream", "write", "close"} : GCSStorage_Upload(c, n, d, i)
    \/ \E i \in OpenInj, t \in Contents :
           (TempRoom(MaxTemp) \/ i \in {"reader", "createtemp"}) /\ GCSStorage_UploadOpen(i, t)
    \/ \E p \in GcsPaths, i \in OpenInj, t \in Contents :
           TempRoom(MaxTemp) /\ GCSStorage_Open(p, i, t)
    \/ \E p \in GcsPaths, c \in Contents : GCSStorage_Write(p, c, "none")
    \/ \E p \in GcsPaths : GCSStorage_Delete(p, "none")

\* the GCS calls that change an object, and Open
OpenNext ==
    \/ \E p \in GcsPaths, c \in Contents : GCSStorage_Write(p, c, "none")
    \/ \E p \in GcsPaths : GCSStorage_Delete(p, "none")
    \/ \E p \in GcsPaths, q \in GcsPaths : GCSStorage_Rename(p, q, "none")
    \/ GCSStorage_RenameDelete("none")
    \/ \E p \in GcsPaths, i \in OpenInj, t \in Contents :
           TempRoom(MaxSnap) /\ GCSStorage_Open(p, i, t)

\* one caller at a time on the memory backend; the clients of one bucket on
\* the GCS backend, one remote call at a time
Spec == Init /\ [][Next]_vars

\* the same callers uploading and opening
SpecUpload == Init /\ [][UploadNext]_vars

\* one caller at a time on the memory backend, with the history of Writes
SpecHist == NewMemoryStorage /\ [][HistNext]_vars

\* concurrent callers of one MemoryStorage
SpecConc == NewMemoryStorage /\ [][ConcNext]_vars

\* clients of the GCS backend opening objects while they change
SpecOpen == NewGCSStorage /\ [][OpenNext]_vars

\* one caller making each call on both backends
SpecPair == NewPair /\ [][PairNext]_vars

(***************************************************************************)
(* Observations used by the properties                                     *)
(***************************************************************************)
\* the stored objects of the backend in use: key -> bytes
Objects ==
    IF driver = DRIVER_MEMORY THEN [p \in DOMAIN files |-> files[p].Content] ELSE bucket

\* the key a call of Upload stores under, on the backend in use
UploadKey(c) ==
    IF driver = DRIVER_MEMORY THEN Join(c.a, c.b) ELSE ObjectPath(c.a, c.b)

\* the call c stored an object at key p
Stores(c, p) ==
    /\ c.err = Nil
    /\ \/ c.op = "Write" /\ c.a = p
       \/ c.op \in {"Rename", "Copy"} /\ c.b = p
       \/ c.op = "Upload" /\ UploadKey(c) = p

\* key p is one of the keys the call c names
CallNames(c, p) ==
    \/ c.op \in {"Read", "Write", "Delete", "Exists", "GetUrl", "Open", "CreateDirectory"}
       /\ c.a = p
    \/ c.op \in {"Rename", "Copy", StepCopied} /\ p \in {c.a, c.b}
    \/ c.op \in {"Upload", StepStored} /\ UploadKey(c) = p

\* the path s ends with the separator
EndsWithSeparator(s) == s # <<>> /\ s[Len(s)] = "/"

(***************************************************************************)
(* C1                                                                      *)
(***************************************************************************)
\* the operations the claim lists as ending the validity of a Write to p
C1_Listed(c, p) ==
    /\ c.err = Nil
    /\ \/ c.op \in {"Write", "Delete"} /\ c.a = p
       \/ c.op \in {"Rename", "Copy"} /\ p \in {c.a, c.b}

\* one step of the memory backend: a successful Write(p, c) leaves c at p, a Read
\* returns what is stored, and what is stored at any p changes only by a listed
\* operation (with Upload to p listed too when withUpload)
C1_Step(withUpload) ==
    driver = DRIVER_MEMORY =>
        /\ (last'.op = "Write" /\ last'.err = Nil)
               => ObjAt(Objects', last'.a) = <<last'.c>>
        /\ last'.op = "Read"
               => IF last'.a \in DOMAIN files
                  THEN last'.err = Nil /\ last'.bytes = files[last'.a].Content
                  ELSE last'.err # Nil
        /\ \A p \in DOMAIN files \cup DOMAIN files' :
               ObjAt(Objects', p) # ObjAt(Objects, p)
                   => \/ C1_Listed(last', p)
                      \/ withUpload /\ last'.op = "Upload" /\ last'.err = Nil
                            /\ Join(last'.a, last'.b) = p

\* C1 as stated: memory backend, after Write(p, c) every Read(p) returns c until
\* the next successful Write(p, .), Delete(p) or Rename/Copy with p as source or
\* destination, and no other operation changes what Read(p) returns.
C1_Original == [][C1_Step(FALSE)]_vars

\* C1 amended: as C1, with a successful Upload whose key filepath.Join(dir, name)
\* is p added to the operations that change what Read(p) returns.
C1_ReadYourWrite == [][C1_Step(TRUE)]_vars

\* a Write of non-empty bytes has just returned and the bytes are stored
C1_Witness ==
    /\ driver = DRIVER_MEMORY
    /\ last.op = "Write" /\ last.err = Nil /\ last.c # <<>>
    /\ ObjAt(Objects, last.a) = <<last.c>>

(***************************************************************************)
(* C2                                                                      *)
(***************************************************************************)
\* a Rename that has succeeded with no step failing, on either backend
C2_Renamed(c) == c.op = "Rename" /\ c.err = Nil /\ c.inj = "none"

\* the content the source of the Rename c held immediately before the call (on
\* the GCS backend, what its copy step found there)
C2_Before(c) == IF driver = DRIVER_GCS THEN <<pending.c>> ELSE ObjAt(Objects, c.a)

\* C2 as stated: for all a and b, not assumed distinct, after Rename(a, b)
\* succeeds Exists(a) is false and Read(b) returns the content a held before.
C2_Original ==
    [][C2_Renamed(last') =>
           /\ last'.a \notin DOMAIN Objects'
           /\ ObjAt(Objects', last'.b) = C2_Before(last')
           /\ C2_Before(last') # <<>>]_vars

\* C2 amended: after Rename(a, b) succeeds Exists(a) is false; for distinct a
\* and b Read(b) returns the content a held before, and for a = b the object is
\* removed, so Read(b) finds nothing; on the GCS backend what Read(b) returns
\* is so when no other client has changed a or b between Rename's copy and its
\* delete.
C2_RenameMoves ==
    [][C2_Renamed(last') =>
           /\ C2_Before(last') # <<>>
           /\ last'.a \notin DOMAIN Objects'
           /\ \/ driver = DRIVER_GCS /\ pending.others
              \/ IF last'.a # last'.b
                 THEN ObjAt(Objects', last'.b) = C2_Before(last')
                 ELSE ObjAt(Objects', last'.b) = <<>>]_vars

\* a Rename onto a different, already present key has succeeded
C2_Witness ==
    /\ C2_Renamed(last)
    /\ last.a # last.b
    /\ last.a \notin DOMAIN Objects
    /\ ObjAt(Objects, last.b) = << <<1>> >>

(***************************************************************************)
(* C3                                                                      *)
(***************************************************************************)
\* the operations the claim names as later mutations
C3_Mutation(c) == c.op \in {"Write", "Delete", "Rename", "Upload", StepCopied, StepStored}

\* C3: after Copy(a, b) succeeds a is still present with its content, a and b
\* hold the same bytes, and a following Write, Delete, Rename or Upload (or
\* remote call of one) that names one of the two keys and not the other leaves
\* the other's content as it was.
C3_CopyIndependent ==
    [][/\ (last'.op = "Copy" /\ last'.err = Nil) =>
              /\ ObjAt(Objects, last'.a) # <<>>
              /\ ObjAt(Objects', last'.a) = ObjAt(Objects, last'.a)
              /\ ObjAt(Objects', last'.b) = ObjAt(Objects', last'.a)
       /\ (last.op = "Copy" /\ last.err = Nil /\ last.a # last.b /\ C3_Mutation(last')) =>
              /\ (CallNames(last', last.b) /\ ~CallNames(last', last.a))
                     => ObjAt(Objects', last.a) = ObjAt(Objects, last.a)
              /\ (CallNames(last', last.a) /\ ~CallNames(last', last.b))
                     => ObjAt(Objects', last.b) = ObjAt(Objects, last.b)]_vars

\* a Copy between two different keys has succeeded
C3_Witness ==
    /\ last.op = "Copy" /\ last.err = Nil /\ last.a # last.b
    /\ ObjAt(Objects, last.a) = << <<1>> >>
    /\ ObjAt(Objects, last.b) = << <<1>> >>

(***************************************************************************)
(* C4                                                                      *)
(***************************************************************************)
\* C4: memory Delete(p) returns not-found if p is absent; if p is present it
\* succeeds and p is absent afterwards; an absent p becomes present only by an
\* operation that stores an object at p, and Exists reports presence.
C4_Delete ==
    [][driver = DRIVER_MEMORY =>
           /\ last'.op = "Delete" =>
                  IF last'.a \in DOMAIN files
                  THEN last'.err = Nil /\ last'.a \notin DOMAIN files'
                  ELSE last'.err = ErrNotExist /\ files' = files
           /\ \A p \in DOMAIN files' \ DOMAIN files : Stores(last', p)
           /\ last'.op = "Exists" => last'.ok = (last'.a \in DOMAIN files)]_vars

\* a Delete of a present path has succeeded while another object stays stored
C4_Witness ==
    /\ driver = DRIVER_MEMORY
    /\ last.op = "Delete" /\ last.err = Nil
    /\ last.a \notin DOMAIN files
    /\ DOMAIN files # {}

(***************************************************************************)
(* C5                                                                      *)
(***************************************************************************)
\* C5 as stated: memory Exists never returns an error, returns false in every
\* state in which no Write to p has yet happened, and a path just written
\* (also with empty bytes) exists.
C5_Original ==
    /\ last.op = "Exists" => last.err = Nil
    /\ \A p \in DOMAIN files : p \in written
    /\ (last.op = "Exists" /\ last.a \notin written) => last.ok = FALSE
    /\ last.op = "Write" => last.a \in DOMAIN files

\* C5 amended: memory Exists never returns an error and reports whether an
\* object is stored at p; the new store holds nothing, and p becomes present only
\* by a successful Write, Upload, Copy or Rename that stores an object at p (so
\* Exists(p) is false until then); it is true right after Write(p, c), empty c
\* included.
C5_Exists ==
    /\ DOMAIN files = {}
    /\ [][/\ last'.op = "Exists"
                 => last'.err = Nil /\ last'.ok = (last'.a \in DOMAIN files)
          /\ \A p \in DOMAIN files' \ DOMAIN files : Stores(last', p)
          /\ last'.op = "Write" => last'.a \in DOMAIN files']_vars

\* Exists has returned true for a path that was written with empty bytes
C5_Witness ==
    /\ last.op = "Exists" /\ last.ok
    /\ last.a \in written
    /\ files[last.a].Content = <<>>

(***************************************************************************)
(* C6                                                                      *)
(***************************************************************************)
\* C6: no call whose body writes the map is between taking and releasing
\* fs.mu while another call is.
C6_WritersExclusive ==
    \A t \in Threads :
        (InCS(t) /\ WritesMap(t)) => \A u \in Threads \ {t} : ~InCS(u)

(***************************************************************************)
(* C7                                                                      *)
(***************************************************************************)
\* one remote call of a GCS Rename(a, b).  The copy: if it fails (injected, or a
\* absent) Rename returns the error with the bucket as before and makes no
\* second call; if not, b holds what a holds and the call goes on.  The delete,
\* when it fails: Rename returns its error, and a and b are both present, b
\* holding what a holds (with quiet: provided no other client has changed a or
\* b since the copy), which is what the copy found at a if no other client has
\* changed them.
C7_Step(quiet) ==
    driver = DRIVER_GCS =>
        /\ (pending = NoPending /\ last'.op \in {"Rename", StepCopied}) =>
               IF last'.inj = "copy" \/ last'.a \notin DOMAIN bucket
               THEN /\ last'.op = "Rename" /\ last'.err # Nil
                    /\ bucket' = bucket
                    /\ pending' = NoPending
               ELSE /\ last'.op = StepCopied
                    /\ bucket' = MapSet(bucket, last'.b, bucket[last'.a])
                    /\ pending'.op = "Rename"
        /\ (pending.op = "Rename" /\ last'.op = "Rename" /\ last'.err # Nil) =>
               /\ last'.err = RemoteDelete(bucket, last'.a, last'.inj)[1]
               /\ (quiet => ~pending.others) =>
                      /\ ObjAt(bucket', last'.a) # <<>>
                      /\ ObjAt(bucket', last'.b) = ObjAt(bucket', last'.a)
               /\ ~pending.others => ObjAt(bucket', last'.a) = <<pending.c>>

\* C7 as stated: GCS Rename(a, b).  If the copy step fails the error is returned,
\* the delete is not attempted and a is untouched; if the copy succeeds and the
\* delete step fails, that error is returned and a and b are both present, b
\* holding a's content.
C7_Original == [][C7_Step(FALSE)]_vars

\* C7 amended: as C7, the outcome of a failed delete step being that a and b are
\* both present with a's content provided no other client of the bucket has
\* changed a or b between Rename's copy and its delete.
C7_RenameSteps == [][C7_Step(TRUE)]_vars

\* a Rename between different keys whose delete step failed after the copy
C7_Witness ==
    /\ driver = DRIVER_GCS
    /\ last.op = "Rename" /\ last.inj = "delete" /\ last.err = ErrTransport
    /\ last.a # last.b
    /\ ObjAt(bucket, last.a) = << <<1>> >>
    /\ ObjAt(bucket, last.b) = << <<1>> >>

(***************************************************************************)
(* C8                                                                      *)
(***************************************************************************)
\* C8: memory Read, Delete, Rename, Copy and GetUrl return the not-found error
\* exactly when their (source) path is absent, and a call that returns an error
\* leaves the map as it was.
C8_Errors ==
    [][driver = DRIVER_MEMORY =>
           /\ last'.op \in {"Read", "Delete", "Rename", "Copy", "GetUrl"}
                  => (last'.err = ErrNotExist <=> last'.a \notin DOMAIN files)
           /\ last'.err # Nil => files' = files]_vars

\* an Upload whose stream failed has returned its error on a store that holds
\* something, and nothing is stored under the Upload's key
C8_Witness ==
    /\ driver = DRIVER_MEMORY
    /\ last.op = "Upload" /\ last.err = ErrStreamRead /\ last.c # <<>>
    /\ DOMAIN files # {}
    /\ Join(last.a, last.b) \notin DOMAIN files

(***************************************************************************)
(* C9                                                                      *)
(***************************************************************************)
\* C9: memory CreateDirectory(path) returns the validation error exactly when
\* path does not end with '/', nil otherwise, and never changes the map.
C9_CreateDirectory ==
    [][(driver = DRIVER_MEMORY /\ last'.op = "CreateDirectory") =>
           /\ last'.err = (IF EndsWithSeparator(last'.a) THEN Nil ELSE ErrDirPath)
           /\ files' = files]_vars

\* CreateDirectory has succeeded on a store that holds something, and nothing
\* is stored under the directory path
C9_Witness ==
    /\ driver = DRIVER_MEMORY
    /\ last.op = "CreateDirectory" /\ last.err = Nil
    /\ DOMAIN files # {}
    /\ last.a \notin DOMAIN files

(***************************************************************************)
(* C10                                                                     *)
(***************************************************************************)
\* the outcome of a call that returns (*os.File, error): the error, whether the
\* handle is nil, and what the handle reads
C10_Outcome(err, handle, temps) == <<err, handle = <<>>, HandleBytes(handle, temps)>>

\* the outcome of Open(dir/name) called right after the Upload c, nothing failing
C10_OpenAfter(c) ==
    IF driver = DRIVER_MEMORY
    THEN LET o == OpenBody(files', c.a \o <<"/">> \o c.b)[2]
         IN  C10_Outcome(o.err, o.handle, tempFiles')
    ELSE LET o == OpenFile(bucket', tempFiles', c.a \o <<"/">> \o c.b, "none", <<>>)
         IN  C10_Outcome(o[1], o[2], o[3])

\* C10 as stated: on every backend the outcome of a successful Upload equals
\* the outcome of Open(dir/name) called immediately afterwards.
C10_Original ==
    [][(last'.op = "Upload" /\ last'.err = Nil) =>
           C10_Outcome(last'.err, last'.handle, tempFiles') = C10_OpenAfter(last')]_vars

\* C10 amended: on the GCS backend a successful Upload returns a non-nil handle
\* at offset 0 that reads exactly the bytes stored under dir + "/" + name when
\* Upload opened it, as does the handle of an Open(dir + "/" + name) that
\* follows and does not fail, the two being different temporary files; these
\* are the uploaded bytes when no other client has changed the object between
\* Upload's commit and its Open; on the memory backend a successful Upload
\* returns a nil handle and no error while Open fails, so only the nil handle
\* agrees.
C10_UploadHandle ==
    [][(last'.op = "Upload" /\ last'.err = Nil) =>
           IF driver = DRIVER_GCS
           THEN LET key == ObjectPath(last'.a, last'.b)
                    o == OpenFile(bucket', tempFiles', key, "none", <<>>)
                IN  /\ key \in DOMAIN bucket'
                    /\ C10_Outcome(last'.err, last'.handle, tempFiles')
                           = <<Nil, FALSE, bucket'[key]>>
                    /\ C10_Outcome(o[1], o[2], o[3]) = <<Nil, FALSE, bucket'[key]>>
                    /\ last'.handle[1].pos = 0
                    /\ o[2] # last'.handle
                    /\ ~pending.others => bucket'[key] = last'.c
           ELSE /\ last'.handle = <<>>
                /\ C10_OpenAfter(last') = <<ErrOpenUnsupported, TRUE, <<>> >>]_vars

\* a GCS Upload of non-empty bytes has returned a handle that reads them
C10_Witness ==
    /\ driver = DRIVER_GCS
    /\ last.op = "Upload" /\ last.err = Nil
    /\ last.handle # <<>>
    /\ HandleBytes(last.handle, tempFiles) = last.c
    /\ last.c # <<>>

(***************************************************************************)
(* C11                                                                     *)
(***************************************************************************)
\* C11: GCS Write(p, c).  When it returns nil the object at p holds exactly c,
\* and a failure of any of its steps (the write, or the Close that commits the
\* object) is returned as an error.
C11_WritePropagates ==
    [][(driver = DRIVER_GCS /\ last'.op = "Write") =>
           /\ last'.err = Nil => ObjAt(bucket', last'.a) = <<last'.c>>
           /\ last'.inj # "none" => last'.err # Nil]_vars

(***************************************************************************)
(* C12                                                                     *)
(***************************************************************************)
\* the kind of an outcome: success, not-found, or another error
C12_Kind(err) ==
    IF err = Nil THEN "success"
    ELSE IF err \in {ErrNotExist, ErrObjectNotExist} THEN "not-found"
    ELSE "other"

\* C12: the same sequence of Write, Read, Delete, Exists, Rename and Copy calls
\* on the memory backend and on a failure-free GCS backend gives, call by call,
\* the same outcome kind, the same bytes and the same boolean, and leaves both
\* with the same path-to-content mapping.
C12_Interchangeable ==
    /\ C12_Kind(last.mem.err) = C12_Kind(last.gcs.err)
    /\ last.mem.bytes = last.gcs.bytes
    /\ last.mem.ok = last.gcs.ok
    /\ [p \in DOMAIN files |-> files[p].Content] = bucket

\* a Rename with equal source and destination has succeeded on both backends
\* while another object stays stored
C12_Witness ==
    /\ last.mem.op = "Rename" /\ last.mem.a = last.mem.b
    /\ last.mem.err = Nil /\ last.gcs.err = Nil
    /\ last.mem.a \notin DOMAIN bucket
    /\ DOMAIN bucket # {}

(***************************************************************************)
(* C13                                                                     *)
(***************************************************************************)
\* C13: GCS CreateDirectory(path) writes a zero-byte object at path + "/" and
\* nothing else; a rejection whose text says "PreconditionFailed" is reported
\* as success and any other error is returned, the bucket staying as it was;
\* and a call that follows a successful call with the same path, the remote
\* not failing, succeeds and leaves the bucket as it is.
C13_Idempotent ==
    [][(driver = DRIVER_GCS /\ last'.op = "CreateDirectory") =>
           /\ last'.inj = "none" =>
                  /\ last'.err = Nil
                  /\ bucket' = MapSet(bucket, last'.a \o <<"/">>, <<>>)
           /\ last'.inj = "precondition" => last'.err = Nil /\ bucket' = bucket
           /\ last'.inj = "close" => last'.err = ErrTransport /\ bucket' = bucket
           /\ (/\ last.op = "CreateDirectory" /\ last.err = Nil /\ last.inj = "none"
               /\ last'.a = last.a /\ last'.inj \in {"none", "precondition"})
                  => last'.err = Nil /\ bucket' = bucket]_vars

\* CreateDirectory has succeeded and its marker is stored next to an object
\* under the directory's prefix
C13_Witness ==
    /\ driver = DRIVER_GCS
    /\ last.op = "CreateDirectory" /\ last.inj = "none" /\ last.err = Nil
    /\ ObjAt(bucket, last.a \o <<"/">>) = << <<>> >>
    /\ ObjAt(bucket, last.a \o <<"/", "a">>) = << <<1>> >>

(***************************************************************************)
(* C14                                                                     *)
(***************************************************************************)
\* C14: GCS Open(p).  On success the handle is on a temporary file that did not
\* exist before the call, at offset 0, holding exactly the object's bytes at
\* the time of the call; if p is absent, or a step fails, an error and no
\* handle are returned; and no later call changes an existing temporary file,
\* so a handle keeps reading what it read.
C14_Snapshot ==
    [][/\ \A i \in 1..Len(tempFiles) :
              i <= Len(tempFiles') /\ tempFiles'[i] = tempFiles[i]
       /\ last'.op = "Open" =>
              IF last'.a \in DOMAIN bucket /\ last'.inj = "none"
              THEN /\ last'.err = Nil
                   /\ Len(last'.handle) = 1
                   /\ last'.handle[1].id \notin 1..Len(tempFiles)
                   /\ last'.handle[1].id \in 1..Len(tempFiles')
                   /\ last'.handle[1].pos = 0
                   /\ HandleBytes(last'.handle, tempFiles') = bucket[last'.a]
              ELSE last'.err # Nil /\ last'.handle = <<>>]_vars

\* a second Open of a path has returned a handle on the object's new bytes
\* while the temporary file of the first Open still holds the old ones
C14_Witness ==
    /\ last.op = "Open" /\ last.err = Nil
    /\ Len(tempFiles) = 2
    /\ last.handle[1].id = 2
    /\ HandleBytes(last.handle, tempFiles) = bucket[last.a]
    /\ tempFiles[1] # tempFiles[2]

(***************************************************************************)
(* C15                                                                     *)
(***************************************************************************)
\* t runs a call of op and is between taking and releasing fs.mu
C15_Inside(t, op) == InCS(t) /\ threads[t].call.op = op

\* a Copy(a, p) is inside its locked section and a Write(p, c) of another
\* caller has called Lock and waits for the readers to leave
C15_CopyThenWrite(t, u) ==
    /\ t # u
    /\ C15_Inside(t, "Copy")
    /\ threads[u].call.op = "Write" /\ threads[u].pc = "drain"
    /\ threads[u].call.a = threads[t].call.b

\* C15 as stated: Copy's read lock does not keep a concurrent Write to the same
\* destination out, so while Copy(a, p) is inside its locked section a
\* Write(p, c) that has called Lock can enter its own.
C15_Original ==
    \A t, u \in Threads : C15_CopyThenWrite(t, u) => ENABLED Conc_LockAcquired(u)

\* C15 amended: a Copy and a concurrent Write are never inside their locked
\* sections at the same time, the Write waiting for the Copy's read lock and
\* the Copy for the Write's exclusive lock; whoever shares the section with a
\* Copy holds the read lock too.
C15_CopyWriteExclusive ==
    \A t, u \in Threads :
        (t # u /\ C15_Inside(t, "Copy") /\ InCS(u)) =>
            /\ threads[u].call.op # "Write"
            /\ LockKind(threads[u].call.op) = "RLock"

\* a Write waits in Lock while a Copy to the same destination is inside
C15_Witness == \E t, u \in Threads : C15_CopyThenWrite(t, u)

(***************************************************************************)
(* C16                                                                     *)
(***************************************************************************)
\* the call c has stored the upload: the memory Upload has returned nil, the
\* GCS Upload has committed the object
C16_Stored(c) ==
    c.err = Nil /\ c.op = (IF driver = DRIVER_MEMORY THEN "Upload" ELSE StepStored)

\* C16: on either backend a successful Upload(stream, name, dir) stores exactly
\* the stream's bytes under the key dir + "/" + name, whatever dir is (empty,
\* or ending in '/').
C16_SameKey ==
    [][C16_Stored(last') =>
           ObjAt(Objects', last'.a \o <<"/">> \o last'.b) = <<last'.c>>]_vars

(***************************************************************************)
(* C17                                                                     *)
(***************************************************************************)
\* the keys the call c may change: those it names as a target, if it succeeded
C17_Targets(c) ==
    IF c.err # Nil THEN {}
    ELSE IF c.op \in {"Write", "Delete"} THEN {c.a}
    ELSE IF c.op = "Upload" THEN {Join(c.a, c.b)}
    ELSE IF c.op = "Rename" THEN {c.a, c.b}
    ELSE IF c.op = "Copy" THEN {c.b}
    ELSE {}

\* C17: a memory-backend call changes the presence and the content of no key
\* other than its targets: Write, Delete and Upload their key, Rename its two
\* keys, Copy its destination, the other operations none.
C17_Frame ==
    [][driver = DRIVER_MEMORY =>
           \A q \in DOMAIN files \cup DOMAIN files' :
               q \notin C17_Targets(last') => ObjAt(Objects', q) = ObjAt(Objects, q)]_vars

\* a Delete of a key has succeeded and a key that has it as a prefix is stored
C17_Witness ==
    /\ driver = DRIVER_MEMORY
    /\ last.op = "Delete" /\ last.err = Nil
    /\ last.a \notin DOMAIN files
    /\ \E q \in DOMAIN files : IsPrefix(last.a, q)

(***************************************************************************)
(* C18                                                                     *)
(***************************************************************************)
\* C18: in the memory backend every entry stored under key k has Name = k.
C18_NameIsKey ==
    driver = DRIVER_MEMORY => \A k \in DOMAIN files : files[k].Name = k

(***************************************************************************)
(* C19                                                                     *)
(***************************************************************************)
\* the caller u reads the map in this step as a Read or an Exists
C19_Observes(u) ==
    /\ threads[u].pc = "cs" /\ threads'[u].pc = "unlock"
    /\ threads[u].call.op \in {"Read", "Exists"}

\* C19: no Read or Exists reads the map while a Rename is between assigning
\* the new key and deleting the old one, so each sees the map as it was before
\* the Rename or as it is after it.
C19_RenameAtomic ==
    [][\A u \in Threads :
           C19_Observes(u) => \A t \in Threads : threads[t].pc # "cs2"]_vars

\* a Rename between different keys has assigned the new key and not yet
\* deleted the old one, while a Read or Exists of one of them waits for the lock
C19_Witness ==
    \E t, u \in Threads :
        /\ threads[t].pc = "cs2"
        /\ threads[t].call.a # threads[t].call.b
        /\ {threads[t].call.a, threads[t].call.b} \subseteq DOMAIN files
        /\ threads[u].pc = "lock"
        /\ threads[u].call.op \in {"Read", "Exists"}
        /\ threads[u].call.a \in {threads[t].call.a, threads[t].call.b}

(***************************************************************************)
(* C20                                                                     *)
(***************************************************************************)
\* a step of a call in progress towards its return
C20_Step ==
    \E t \in Threads :
        \/ Conc_RLock(t) \/ Conc_Lock(t) \/ Conc_LockAcquired(t)
        \/ Conc_Body(t) \/ Conc_RenameDelete(t) \/ Conc_CopyAssign(t) \/ Conc_Unlock(t)

\* C20: while a call is in progress some call can take a step towards its
\* return (no set of calls is stuck), and the lock is free whenever no call is
\* in progress.
C20_EveryCallReturns ==
    /\ (\E t \in Threads : threads[t].pc \notin {"idle", "return"}) => ENABLED C20_Step
    /\ (\A t \in Threads : threads[t].pc \in {"idle", "return"}) => mu = MuFree

====
